---------------------------- MODULE Spec2Model ----------------------------
(***************************************************************************)
(* The 10k Perovskites dashboard (src/dashboard_app.py) as a state         *)
(* machine: the warehouse tables the queries read, the browser session,    *)
(* and one action per Flask route.  Text is held as sequences of           *)
(* one-character strings so that LOWER, LIKE, endswith and the timestamp   *)
(* parsers are computed character by character.                            *)
(***************************************************************************)
EXTENDS Integers, Sequences, FiniteSets, TLC

VARIABLES
    sample, dataset, datasetsamplelink, samplelink,  \* the warehouse tables
    session,      \* the Flask session of each browser: a dict of the keys set here
    response,     \* the response to the last request
    log,          \* what the last request did on the way
    last_auth     \* per browser, the last of {authorize that returned, logout}

tables == <<sample, dataset, datasetsamplelink, samplelink>>

vars == <<sample, dataset, datasetsamplelink, samplelink, session, response, log, last_auth>>

(***************************************************************************)
(* Text                                                                    *)
(***************************************************************************)

\* SQL NULL in a text column (no text equals it: its one element is not a character).
NULL == <<"NULL">>

\* The lower-case letter of each upper-case letter.
LowerOf ==
    ("A" :> "a") @@ ("B" :> "b") @@ ("C" :> "c") @@ ("D" :> "d") @@
    ("E" :> "e") @@ ("F" :> "f") @@ ("G" :> "g") @@ ("H" :> "h") @@
    ("I" :> "i") @@ ("J" :> "j") @@ ("K" :> "k") @@ ("L" :> "l") @@
    ("M" :> "m") @@ ("N" :> "n") @@ ("O" :> "o") @@ ("P" :> "p") @@
    ("Q" :> "q") @@ ("R" :> "r") @@ ("S" :> "s") @@ ("T" :> "t") @@
    ("U" :> "u") @@ ("V" :> "v") @@ ("W" :> "w") @@ ("X" :> "x") @@
    ("Y" :> "y") @@ ("Z" :> "z")

LowerChar(c) == IF c \in DOMAIN LowerOf THEN LowerOf[c] ELSE c

\* SQL LOWER(text); LOWER(NULL) is NULL.
LOWER(s) == IF s = NULL THEN NULL ELSE [i \in 1..Len(s) |-> LowerChar(s[i])] \o <<>>

RECURSIVE LikeFrom(_, _, _, _)
\* Whether s[i..] matches the LIKE pattern p[j..]: % is any run of characters,
\* _ is any one character, every other character is itself.
LikeFrom(s, i, p, j) ==
    IF j > Len(p) THEN i > Len(s)
    ELSE IF p[j] = "%" THEN \E k \in i..(Len(s) + 1) : LikeFrom(s, k, p, j + 1)
    ELSE /\ i <= Len(s)
         /\ (p[j] = "_" \/ p[j] = s[i])
         /\ LikeFrom(s, i + 1, p, j + 1)

\* SQL `s LIKE p` inside WHERE: a NULL operand gives NULL, which WHERE drops.
LIKE(s, p) == s # NULL /\ LikeFrom(s, 1, p, 1)

\* Python str.endswith.
EndsWith(s, suffix) ==
    /\ Len(s) >= Len(suffix)
    /\ \A i \in 1..Len(suffix) : s[Len(s) - Len(suffix) + i] = suffix[i]

(***************************************************************************)
(* Timestamps                                                              *)
(***************************************************************************)

\* The value of each digit.
DigitOf ==
    ("0" :> 0) @@ ("1" :> 1) @@ ("2" :> 2) @@ ("3" :> 3) @@ ("4" :> 4) @@
    ("5" :> 5) @@ ("6" :> 6) @@ ("7" :> 7) @@ ("8" :> 8) @@ ("9" :> 9)

IsDigit(c) == c \in DOMAIN DigitOf

DigitValue(c) == DigitOf[c]

\* How many of the characters s[i], s[i+1], ... are digits, at most `most`.
RECURSIVE DigitRun(_, _, _)
DigitRun(s, i, most) ==
    IF most = 0 \/ i > Len(s) \/ ~IsDigit(s[i]) THEN 0
    ELSE 1 + DigitRun(s, i + 1, most - 1)

\* The number written by the n digits s[i..i+n-1].
RECURSIVE Number(_, _, _)
Number(s, i, n) ==
    IF n = 0 THEN 0 ELSE Number(s, i, n - 1) * 10 + DigitValue(s[i + n - 1])

\* The first six digits of a fraction of n digits at s[i..], as microseconds.
RECURSIVE Micros(_, _, _, _)
Micros(s, i, n, place) ==
    IF place = 0 THEN 0
    ELSE (IF n > 0 THEN DigitValue(s[i]) ELSE 0) * place
         + Micros(s, i + 1, IF n > 0 THEN n - 1 ELSE 0, place \div 10)

\* The two formats of the queries, element by element.
FormatZoned == <<"%Y", "-", "%m", "-", "%d", "T", "%H", ":", "%M", ":", "%E*S", "%Ez">>

FormatNaive == <<"%Y", "-", "%m", "-", "%d", "T", "%H", ":", "%M", ":", "%S">>

NoFields == [Y |-> 1970, m |-> 1, d |-> 1, H |-> 0, M |-> 0, S |-> 0, us |-> 0, off |-> 0]

FieldWidth(e) == IF e = "%Y" THEN 4 ELSE 2

FieldInRange(e, v) ==
    CASE e = "%Y" -> v >= 1
      [] e = "%m" -> v >= 1 /\ v <= 12
      [] e = "%d" -> v >= 1 /\ v <= 31
      [] e = "%H" -> v <= 23
      [] e = "%M" -> v <= 59
      [] OTHER    -> v <= 60

FieldName(e) ==
    CASE e = "%Y" -> "Y" [] e = "%m" -> "m" [] e = "%d" -> "d"
      [] e = "%H" -> "H" [] e = "%M" -> "M" [] OTHER -> "S"

Failed == [ok |-> FALSE, f |-> NoFields]

RECURSIVE ParseFrom(_, _, _, _, _)
\* Reads s[i..] by the format elements fmt[j..]; f holds the fields read so far.
\* The whole of s must be consumed.
ParseFrom(s, i, fmt, j, f) ==
    IF j > Len(fmt) THEN (IF i = Len(s) + 1 THEN [ok |-> TRUE, f |-> f] ELSE Failed)
    ELSE LET e == fmt[j] IN
      CASE e = "%Ez" ->
             IF /\ i + 5 <= Len(s)
                /\ s[i] \in {"+", "-"}
                /\ DigitRun(s, i + 1, 2) = 2
                /\ s[i + 3] = ":"
                /\ DigitRun(s, i + 4, 2) = 2
                /\ Number(s, i + 4, 2) <= 59
             THEN LET mins == Number(s, i + 1, 2) * 60 + Number(s, i + 4, 2)
                  IN  ParseFrom(s, i + 6, fmt, j + 1,
                                [f EXCEPT !.off = IF s[i] = "-" THEN 0 - mins ELSE mins])
             ELSE Failed
        [] e = "%E*S" ->
             LET n == DigitRun(s, i, 2) IN
             IF n = 0 \/ Number(s, i, n) > 60 THEN Failed
             ELSE LET g == [f EXCEPT !.S = Number(s, i, n)]
                      k == i + n
                  IN  IF k <= Len(s) /\ s[k] = "."
                      THEN LET fr == DigitRun(s, k + 1, Len(s))
                           IN  IF fr = 0 THEN Failed
                               ELSE ParseFrom(s, k + 1 + fr, fmt, j + 1,
                                              [g EXCEPT !.us = Micros(s, k + 1, fr, 100000)])
                      ELSE ParseFrom(s, k, fmt, j + 1, g)
        [] e \in {"%Y", "%m", "%d", "%H", "%M", "%S"} ->
             LET n == DigitRun(s, i, FieldWidth(e))
                 v == Number(s, i, n)
             IN  IF n = 0 \/ ~FieldInRange(e, v) THEN Failed
                 ELSE ParseFrom(s, i + n, fmt, j + 1, [f EXCEPT ![FieldName(e)] = v])
        [] OTHER ->
             IF i <= Len(s) /\ s[i] = e THEN ParseFrom(s, i + 1, fmt, j + 1, f) ELSE Failed

\* Days from 1970-01-01 to the civil date y-m-d.
DaysFromCivil(y, m, d) ==
    LET yy  == IF m <= 2 THEN y - 1 ELSE y
        era == yy \div 400
        yoe == yy - era * 400
        mp  == (m + 9) % 12
        doy == (153 * mp + 2) \div 5 + d - 1
        doe == yoe * 365 + yoe \div 4 - yoe \div 100 + doy
    IN  era * 146097 + doe - 719468

\* A TIMESTAMP: <<UTC day, second of the day, microsecond>>; the NULL one is <<>>.
NullTimestamp == <<>>

Instant(f) ==
    LET secs == f.H * 3600 + f.M * 60 + f.S - f.off * 60
    IN  <<DaysFromCivil(f.Y, f.m, f.d) + secs \div 86400, secs % 86400, f.us>>

\* Whether PARSE_TIMESTAMP(fmt, s) can read s (it raises when it cannot).
Parses(fmt, s) == ParseFrom(s, 1, fmt, 1, NoFields).ok

\* PARSE_TIMESTAMP(fmt, s) of a text it can read; NULL of NULL.
PARSE_TIMESTAMP(fmt, s) ==
    IF s = NULL THEN NullTimestamp ELSE Instant(ParseFrom(s, 1, fmt, 1, NoFields).f)

\* SAFE.PARSE_TIMESTAMP(fmt, s): NULL where PARSE_TIMESTAMP would raise.
SAFE_PARSE_TIMESTAMP(fmt, s) ==
    IF s = NULL THEN NullTimestamp
    ELSE LET read == ParseFrom(s, 1, fmt, 1, NoFields)
         IN  IF read.ok THEN Instant(read.f) ELSE NullTimestamp

\* DATE(timestamp): its UTC day; the NULL date is -1 here.
NullDate == 0 - 1

DATE(ts) == IF ts = NullTimestamp THEN NullDate ELSE ts[1]

\* Timestamp order, NULLs last under ORDER BY ... DESC.
TimestampLess(a, b) ==
    IF a = NullTimestamp THEN b # NullTimestamp
    ELSE /\ b # NullTimestamp
         /\ \/ a[1] < b[1]
            \/ a[1] = b[1] /\ a[2] < b[2]
            \/ a[1] = b[1] /\ a[2] = b[2] /\ a[3] < b[3]

(***************************************************************************)
(* The warehouse: candidate rows of the three tables the queries read      *)
(***************************************************************************)

PROJECT_ID == "10k_perovskites"

ThinFilmText == <<"t", "h", "i", "n", " ", "f", "i", "l", "m">>

ThinFilmCapitalised == <<"T", "h", "i", "n", " ", "F", "i", "l", "m">>

PrecursorText == <<"p", "r", "e", "c", "u", "r", "s", "o", "r", " ",
                   "s", "o", "l", "u", "t", "i", "o", "n">>

UnknownText == <<"U", "n", "k", "n", "o", "w", "n">>

\* '2024-03-01T10:00:00+00:00'
ZonedMarch1 == <<"2", "0", "2", "4", "-", "0", "3", "-", "0", "1", "T", "1", "0", ":",
                 "0", "0", ":", "0", "0", "+", "0", "0", ":", "0", "0">>

\* '2024-03-02T20:30:00.5-08:00', which is 04:30 on March 3 in UTC
ZonedMarch2 == <<"2", "0", "2", "4", "-", "0", "3", "-", "0", "2", "T", "2", "0", ":",
                 "3", "0", ":", "0", "0", ".", "5", "-", "0", "8", ":", "0", "0">>

\* '2024-03-02T23:30:00': the second, zone-less format only
NaiveMarch2 == <<"2", "0", "2", "4", "-", "0", "3", "-", "0", "2", "T", "2", "3", ":",
                 "3", "0", ":", "0", "0">>

\* '03/02/2024': neither format
SlashDate == <<"0", "3", "/", "0", "2", "/", "2", "0", "2", "4">>

PolluxA == <<"P", "o", "l", "l", "u", "x", "_", "O", "O", "S", "p", "e", "c", " ", "A">>

PolluxB == <<"p", "o", "l", "l", "u", "x", "_", "o", "o", "s", "p", "e", "c", " ", "B">>

PolluxDash == <<"P", "o", "l", "l", "u", "x", "-", "O", "O", "S", "p", "e", "c">>

SampleWellLabel == <<"S", "a", "m", "p", "l", "e", " ", "W", "e", "l", "l">>

SpinLabel == <<"S", "p", "i", "n", " ", "C", "o", "a", "t">>

WellFile == <<"w", ".", "j", "p", "e", "g">>

SampleRow(i, type, created, project) ==
    [id |-> i, sample_name |-> "sample", description |-> "film on glass",
     date_created |-> created, owner_orcid |-> "0000-0002", sample_type |-> type,
     project_id |-> project]

DatasetRow(i, label, file, project) ==
    [id |-> i, unique_id |-> i + 100, measurement |-> label, file_to_upload |-> file,
     dataset_name |-> "run", source_folder |-> "/data", project_id |-> project]

LinkRow(i, d, s) == [id |-> i, dataset_id |-> d, sample_id |-> s]

SampleCatalogue ==
    { SampleRow(1, ThinFilmText, ZonedMarch1, PROJECT_ID),
      SampleRow(2, ThinFilmText, ZonedMarch2, PROJECT_ID),
      SampleRow(3, ThinFilmCapitalised, ZonedMarch1, PROJECT_ID),
      SampleRow(4, ThinFilmText, NULL, PROJECT_ID),
      SampleRow(5, ThinFilmText, NaiveMarch2, PROJECT_ID),
      SampleRow(6, NULL, SlashDate, PROJECT_ID),
      SampleRow(7, ThinFilmText, ZonedMarch1, "other_project"),
      SampleRow(8, PrecursorText, ZonedMarch1, PROJECT_ID) }

DatasetCatalogue ==
    { DatasetRow(1, PolluxA, NULL, PROJECT_ID),
      DatasetRow(2, PolluxB, NULL, PROJECT_ID),
      DatasetRow(3, PolluxDash, NULL, PROJECT_ID),
      DatasetRow(4, SampleWellLabel, WellFile, PROJECT_ID),
      DatasetRow(5, SampleWellLabel, NULL, PROJECT_ID),
      DatasetRow(6, SpinLabel, NULL, PROJECT_ID),
      DatasetRow(7, NULL, NULL, PROJECT_ID),
      DatasetRow(8, PolluxA, NULL, "other_project") }

LinkCatalogue ==
    { LinkRow(1, 1, 1), LinkRow(2, 1, 1), LinkRow(3, 1, 2),
      LinkRow(4, 2, 1), LinkRow(5, 3, 1),
      LinkRow(6, 4, 1), LinkRow(7, 4, 2), LinkRow(8, 4, 5), LinkRow(9, 4, 6),
      LinkRow(10, 5, 1) }

SampleLinkCatalogue == { [id |-> 1, sample_id |-> 1, parent_sample_id |-> 8] }

\* The most rows a warehouse of Init holds, over its four tables.
MaxRows == 3

\* The subsets of k of the rows.
OfSize(rows, k) == {p \in SUBSET rows : Cardinality(p) = k}

\* How many rows each of the four tables holds, at most n together.
TableSizes(n) ==
    {v \in (0..n) \X (0..n) \X (0..n) \X (0..n) : v[1] + v[2] + v[3] + v[4] <= n}

\* The warehouses with tables of these sizes, rows from the catalogues:
\* <<sample, dataset, datasetsamplelink, samplelink>>.
WarehousesOfSizes(v) ==
    OfSize(SampleCatalogue, v[1]) \X OfSize(DatasetCatalogue, v[2])
    \X OfSize(LinkCatalogue, v[3]) \X OfSize(SampleLinkCatalogue, v[4])

(***************************************************************************)
(* The queries of get_dashboard_data, over the tables                      *)
(***************************************************************************)

SpinPattern == <<"%", "s", "p", "i", "n", "%">>

SampleWellPattern == <<"%", "s", "a", "m", "p", "l", "e", " ", "w", "e", "l", "l", "%">>

OospecPattern == <<"%", "o", "o", "s", "p", "e", "c", "%">>

PolluxPattern == <<"%", "p", "o", "l", "l", "u", "x", "_", "o", "o", "s", "p", "e", "c", "%">>

\* The factor of SUM(sample_count * 8).
SpectraPerSample == 8

\* LIMIT 10 of the dataset-types breakdown.
DatasetTypesLimit == 10

\* LIMIT 500 of the precursor join.
PrecursorLimit == 500

ProjectSamples == {s \in sample : s.project_id = PROJECT_ID}

ProjectDatasets == {d \in dataset : d.project_id = PROJECT_ID}

RECURSIVE SumOver(_, _)
\* The sum of f[r] over the rows r of a finite set.
SumOver(rows, f) ==
    IF rows = {} THEN 0
    ELSE LET r == CHOOSE x \in rows : TRUE IN f[r] + SumOver(rows \ {r}, f)

RECURSIVE OrderByCountDesc(_)
\* ORDER BY count DESC of a set of grouped rows, as the list of its rows. SQL
\* leaves the order of rows with equal counts open; they are listed here in
\* one fixed order.
OrderByCountDesc(groups) ==
    IF groups = {} THEN <<>>
    ELSE LET g == CHOOSE x \in groups : \A y \in groups : x.count >= y.count
         IN  <<g>> \o OrderByCountDesc(groups \ {g})

\* The selections LIMIT n can keep of rows ordered by count, descending: n rows
\* with no dropped row counting more than a kept one (any choice among equals).
LimitByCountDesc(groups, n) ==
    IF Cardinality(groups) <= n THEN {groups}
    ELSE LET last == OrderByCountDesc(groups)[n].count
             above == {g \in groups : g.count > last}
             equal == {g \in groups : g.count = last}
         IN  { groups \ dropped :
                 dropped \in { d \in SUBSET equal :
                                 Cardinality(d) = Cardinality(equal) - (n - Cardinality(above)) } }

\* sample_type_records over WHERE sample_type IS NOT NULL: the unlabelled
\* samples are left out of the breakdown.
sample_type_records_labelled(rows) ==
    LET kept == SelectSeq(rows, LAMBDA r : r.key # NULL)
    IN  [i \in 1..Len(kept) |-> [sample_type |-> kept[i].label, count |-> kept[i].count]]

\* to_dict('records') of the two breakdowns: the label and the count of each row.
sample_type_records(rows) ==
    [i \in 1..Len(rows) |-> [sample_type |-> rows[i].label, count |-> rows[i].count]]

dataset_type_records(rows) ==
    [i \in 1..Len(rows) |-> [measurement |-> rows[i].label, count |-> rows[i].count]]

\* 1. Total thin films.
query_thin_films ==
    Cardinality({s \in ProjectSamples : LOWER(s.sample_type) = ThinFilmText})

\* 2. Sample types breakdown: GROUP BY the column, the label COALESCEd.
query_sample_types ==
    OrderByCountDesc(
        { [key   |-> t,
           label |-> IF t = NULL THEN UnknownText ELSE t,
           count |-> Cardinality({s \in ProjectSamples : s.sample_type = t})]
          : t \in {s.sample_type : s \in ProjectSamples} })

\* 3. Specific dataset counts.
CountLike(pattern) ==
    Cardinality({d \in ProjectDatasets : LIKE(LOWER(d.measurement), pattern)})

query_spin_runs == CountLike(SpinPattern)

query_sample_well == CountLike(SampleWellPattern)

query_uvvis_datasets == CountLike(OospecPattern)

\* Dataset types breakdown, before its LIMIT.
DatasetTypeGroups ==
    { [key   |-> m,
       label |-> IF m = NULL THEN UnknownText ELSE m,
       count |-> Cardinality({d \in ProjectDatasets : d.measurement = m})]
      : m \in {d.measurement : d \in ProjectDatasets} }

\* The results the dataset-types query can give.
query_dataset_types ==
    { OrderByCountDesc(kept) : kept \in LimitByCountDesc(DatasetTypeGroups, DatasetTypesLimit) }

\* 4. Spectra count. The inner query: one row per qualifying dataset id with
\* its COUNT(DISTINCT dsl.sample_id) under the LEFT JOIN.
SpectraDatasets ==
    {d \in ProjectDatasets : LIKE(LOWER(d.measurement), PolluxPattern)}

SampleCount(datasetId) ==
    Cardinality({l.sample_id : l \in {x \in datasetsamplelink : x.dataset_id = datasetId}})

\* SUM(sample_count * 8): <<>> is SQL NULL (no row to sum), <<n>> the sum n.
query_spectra ==
    LET ids == {d.id : d \in SpectraDatasets}
    IN  IF ids = {} THEN <<>>
        ELSE <<SumOver(ids, [i \in ids |-> SampleCount(i) * SpectraPerSample])>>

\* 5. Cumulative thin films over time.
\* COALESCE(SAFE.PARSE_TIMESTAMP(zoned format), SAFE.PARSE_TIMESTAMP(naive format))
SampleTimestamp(s) ==
    LET zoned == SAFE_PARSE_TIMESTAMP(FormatZoned, s.date_created)
    IN  IF zoned # NullTimestamp THEN zoned
        ELSE SAFE_PARSE_TIMESTAMP(FormatNaive, s.date_created)

\* WITH daily_counts: the date of each thin film that has a date_created.
daily_counts ==
    { [id |-> s.id, date |-> DATE(SampleTimestamp(s))]
      : s \in {x \in ProjectSamples :
                 x.sample_type = ThinFilmText /\ x.date_created # NULL} }

\* daily_totals: COUNT(*) per date that is not NULL.
daily_totals(counts) ==
    { [date |-> d, daily_count |-> Cardinality({r \in counts : r.date = d})]
      : d \in {r.date : r \in counts} \ {NullDate} }

RECURSIVE OrderByDate(_)
OrderByDate(rows) ==
    IF rows = {} THEN <<>>
    ELSE LET r == CHOOSE x \in rows : \A y \in rows : x.date <= y.date
         IN  <<r>> \o OrderByDate(rows \ {r})

RECURSIVE RunningSum(_, _, _)
\* The rows with SUM(daily_count) OVER (ORDER BY date): the sum up to each row.
RunningSum(ordered, i, before) ==
    IF i > Len(ordered) THEN <<>>
    ELSE <<[date             |-> ordered[i].date,
            daily_count      |-> ordered[i].daily_count,
            cumulative_count |-> before + ordered[i].daily_count]>>
         \o RunningSum(ordered, i + 1, before + ordered[i].daily_count)

query_samples_time == RunningSum(OrderByDate(daily_totals(daily_counts)), 1, 0)

\* 6. Total datasets.
query_dataset_count == Cardinality(ProjectDatasets)

\* 7. Thin films with their parent precursor solutions. The two LEFT JOINs
\* followed by WHERE ps.sample_type = ... keep the matched rows only.
precursor_links ==
    { [thin_film_id |-> j[1].id, thin_film_name |-> j[1].sample_name,
       precursor_name |-> j[3].sample_name,
       precursor_description |-> j[3].description, link |-> j[2].id]
      : j \in { t \in ProjectSamples \X samplelink \X sample :
                  /\ LOWER(t[1].sample_type) = ThinFilmText
                  /\ t[1].id = t[2].sample_id
                  /\ t[2].parent_sample_id = t[3].id
                  /\ t[3].sample_type = PrecursorText } }

\* LIMIT n with no ORDER BY: any n of the rows.
LimitAny(rows, n) ==
    IF Cardinality(rows) <= n THEN {rows}
    ELSE {kept \in SUBSET rows : Cardinality(kept) = n}

RECURSIVE precursor_records(_)
precursor_records(rows) ==
    IF rows = {} THEN <<>>
    ELSE LET r == CHOOSE x \in rows : TRUE
         IN  <<[thin_film_id |-> r.thin_film_id, thin_film_name |-> r.thin_film_name,
                precursor_name |-> r.precursor_name,
                precursor_description |-> r.precursor_description]>>
             \o precursor_records(rows \ {r})

query_thin_films_precursors ==
    { precursor_records(kept) : kept \in LimitAny(precursor_links, PrecursorLimit) }

\* 8. Thumbnail of the day: the joined rows that pass the WHERE clause.
thumbnail_join ==
    { t \in ProjectSamples \X datasetsamplelink \X dataset :
        /\ t[1].id = t[2].sample_id
        /\ t[2].dataset_id = t[3].id
        /\ LIKE(LOWER(t[3].measurement), SampleWellPattern)
        /\ t[3].file_to_upload # NULL
        /\ t[1].date_created # NULL }

\* PARSE_TIMESTAMP is not SAFE here: the query raises on a row it cannot read
\* (taken over the rows that pass WHERE).
thumbnail_query_raises ==
    \E t \in thumbnail_join : ~Parses(FormatZoned, t[1].date_created)

ThumbnailTimestamp(t) == PARSE_TIMESTAMP(FormatZoned, t[1].date_created)

\* ORDER BY the timestamp DESC LIMIT 1: any row no other row is later than.
LatestOf(rows) ==
    { t \in rows :
        \A u \in rows : ~TimestampLess(ThumbnailTimestamp(t), ThumbnailTimestamp(u)) }

thumbnail_latest == LatestOf(thumbnail_join)

\* df.iloc[0].to_dict() of the row; `today` is CURRENT_DATE().
thumbnail_row(t, today) ==
    [sample_id      |-> t[1].id,
     sample_name    |-> t[1].sample_name,
     description    |-> t[1].description,
     date_created   |-> t[1].date_created,
     owner_orcid    |-> t[1].owner_orcid,
     sample_type    |-> t[1].sample_type,
     file_to_upload |-> t[3].file_to_upload,
     dataset_name   |-> t[3].dataset_name,
     source_folder  |-> t[3].source_folder,
     dataset_id     |-> t[3].id,
     unique_id      |-> t[3].unique_id,
     sample_date    |-> DATE(ThumbnailTimestamp(t)),
     is_today       |-> DATE(ThumbnailTimestamp(t)) = today]

(***************************************************************************)
(* Python values                                                           *)
(***************************************************************************)

\* None where a dict is expected, and None where text is expected.
None == [none |-> TRUE]

NoneText == <<"None">>

Base64Alphabet ==
    <<"A", "B", "C", "D", "E", "F", "G", "H", "I", "J", "K", "L", "M", "N", "O", "P",
      "Q", "R", "S", "T", "U", "V", "W", "X", "Y", "Z", "a", "b", "c", "d", "e", "f",
      "g", "h", "i", "j", "k", "l", "m", "n", "o", "p", "q", "r", "s", "t", "u", "v",
      "w", "x", "y", "z", "0", "1", "2", "3", "4", "5", "6", "7", "8", "9", "+", "/">>

Sextet(n) == Base64Alphabet[n + 1]

RECURSIVE b64encode(_)
\* base64.b64encode(bytes).decode('utf-8')
b64encode(bytes) ==
    CASE Len(bytes) = 0 -> <<>>
      [] Len(bytes) = 1 ->
           <<Sextet(bytes[1] \div 4), Sextet((bytes[1] % 4) * 16), "=", "=">>
      [] Len(bytes) = 2 ->
           <<Sextet(bytes[1] \div 4),
             Sextet((bytes[1] % 4) * 16 + bytes[2] \div 16),
             Sextet((bytes[2] % 16) * 4), "=">>
      [] OTHER ->
           <<Sextet(bytes[1] \div 4),
             Sextet((bytes[1] % 4) * 16 + bytes[2] \div 16),
             Sextet((bytes[2] % 16) * 4 + bytes[3] \div 64),
             Sextet(bytes[3] % 64)>>
           \o b64encode(SubSeq(bytes, 4, Len(bytes)))

(***************************************************************************)
(* The thumbnail resolver and what the services it calls can answer        *)
(***************************************************************************)

JpegSuffix == <<".", "j", "p", "e", "g">>

ImageJpeg == <<"i", "m", "a", "g", "e", "/", "j", "p", "e", "g">>

ImagePng == <<"i", "m", "a", "g", "e", "/", "p", "n", "g">>

TextHtml == <<"t", "e", "x", "t", "/", "h", "t", "m", "l">>

\* What cruc_client.get_dataset_download_links can do: raise, or return a dict
\* (its items in order; k the file name, v the URL).
LinkAnswers ==
    { [raises |-> TRUE, items |-> <<>>],
      [raises |-> FALSE, items |-> <<>>],
      [raises |-> FALSE,
       items |-> <<[k |-> <<"b", ".", "J", "P", "G">>, v |-> "https://store/b.JPG"]>>],
      [raises |-> FALSE,
       items |-> <<[k |-> <<"a", ".", "j", "p", "e", "g">>, v |-> ""]>>],
      [raises |-> FALSE,
       items |-> <<[k |-> <<"n", ".", "t", "x", "t">>, v |-> "https://store/n.txt"],
                   [k |-> <<"a", ".", "j", "p", "e", "g">>, v |-> "https://store/a.jpeg"],
                   [k |-> <<"c", ".", "j", "p", "e", "g">>, v |-> "https://store/c.jpeg"]>>] }

\* What requests.get can do: raise, or return a response (content_type is
\* NoneText when the response has no Content-Type header).
FetchAnswers ==
    { [raises |-> TRUE, status_code |-> 0, content_type |-> NoneText, content |-> <<>>],
      [raises |-> FALSE, status_code |-> 200, content_type |-> ImagePng,
       content |-> <<137, 80>>],
      [raises |-> FALSE, status_code |-> 200, content_type |-> NoneText,
       content |-> <<255, 216, 255, 224>>],
      [raises |-> FALSE, status_code |-> 404, content_type |-> TextHtml,
       content |-> <<>>] }

\* [v for k, v in download_links.items() if k.endswith('.jpeg')]
JpegUrls(items) == SelectSeq(items, LAMBDA it : EndsWith(it.k, JpegSuffix))

\* The resolver's answer when it ends before any fetch.
NoImage(lookups) ==
    [image_data |-> NoneText, lookups |-> lookups, fetches |-> 0,
     fetched_url |-> "", fetch_status |-> 0]

\* f"data:{content_type};base64,{image_data}"
DataReference(content_type, image_data) ==
    <<"d", "a", "t", "a", ":">> \o content_type
    \o <<";", "b", "a", "s", "e", "6", "4", ",">> \o image_data

\* get_thumbnail_image_data: the image reference (or NoneText) with the calls
\* it made; links and fetch are what the two services answer when called.
get_thumbnail_image_data(dataset_id, links, fetch) ==
    IF links.raises THEN NoImage(1)
    ELSE LET urls == JpegUrls(links.items) IN
         IF Len(urls) = 0 THEN NoImage(1)                 \* [0] raises IndexError
         ELSE LET download_url == urls[1].v IN
              IF download_url = "" THEN NoImage(1)
              ELSE IF fetch.raises
                   THEN [NoImage(1) EXCEPT !.fetches = 1, !.fetched_url = download_url]
              ELSE IF fetch.status_code = 200
                   THEN [image_data |->
                             DataReference(
                                 IF fetch.content_type = NoneText THEN ImageJpeg
                                 ELSE fetch.content_type,
                                 b64encode(fetch.content)),
                         lookups |-> 1, fetches |-> 1, fetched_url |-> download_url,
                         fetch_status |-> 200]
              ELSE [NoImage(1) EXCEPT !.fetches = 1, !.fetched_url = download_url,
                                      !.fetch_status = fetch.status_code]

(***************************************************************************)
(* get_dashboard_data and GET /api/data                                    *)
(***************************************************************************)

\* How to_dataframe hands over the SQL NULL of SUM over no rows: None, a float
\* NaN or pandas.NA, by the versions of the client library and of pandas.
NullCells == {"None", "NaN", "NA"}

\* Days CURRENT_DATE() is drawn from: 2024-03-01 and 2024-06-01.
Today == {DaysFromCivil(2024, 3, 1), DaysFromCivil(2024, 6, 1)}

\* The queries in the order get_dashboard_data runs them; 0 is none of them.
Queries == 1..11

SpectraQuery == 7

\* What one request logs: the exception that ended it ("none" when it
\* returned), the rows the thumbnail query returned (-1: it did not return),
\* and the calls of the resolver.
RequestLog(raised, rows, resolver) ==
    [route |-> "/api/data", raised |-> raised, thumbnail_rows |-> rows,
     lookups |-> resolver.lookups, fetches |-> resolver.fetches,
     fetched_url |-> resolver.fetched_url, fetch_status |-> resolver.fetch_status]

Raised(exception) ==
    [raised |-> exception, data |-> None, log |-> RequestLog(exception, 0 - 1, NoImage(0))]

\* Returned with the download links looked up before the rows are counted.
Returned_after_lookup(data, rows, resolver) ==
    [raised |-> "none", data |-> data,
     log |-> RequestLog("none", rows, [resolver EXCEPT !.lookups = 1])]

Returned(data, rows, resolver) ==
    [raised |-> "none", data |-> data, log |-> RequestLog("none", rows, resolver)]

\* The results of the queries: the counts as read from ['count'][0], the lists
\* as to_dict('records') gives them; of the two queries with a LIMIT the
\* results they can give, and of the thumbnail query whether it raises and the
\* rows it can return under LIMIT 1.
query_results ==
    [thin_films_count      |-> query_thin_films,
     total_datasets        |-> query_dataset_count,
     spin_runs_count       |-> query_spin_runs,
     sample_well_count     |-> query_sample_well,
     uvvis_datasets_count  |-> query_uvvis_datasets,
     spectra_result        |-> query_spectra,
     sample_types          |-> sample_type_records(query_sample_types),
     samples_time          |-> query_samples_time,
     dataset_types         |-> query_dataset_types,
     thin_films_precursors |-> query_thin_films_precursors,
     thumbnail_raises      |-> thumbnail_query_raises,
     thumbnail_rows        |-> IF thumbnail_query_raises THEN {} ELSE thumbnail_latest]

\* Line 195: spectra_count = int(spectra_result) if spectra_result is not None
\* else 0. The cell is <<n>>, or <<>> for SQL NULL, which arrives as null_cell.
\* "ValueError" and "TypeError" are int(float('nan')) and int(pandas.NA).
spectra_count_of(cell, null_cell) ==
    IF cell # <<>> THEN [raised |-> "none", value |-> cell[1]]
    ELSE CASE null_cell = "None" -> [raised |-> "none", value |-> 0]
           [] null_cell = "NaN"  -> [raised |-> "ValueError", value |-> 0]
           [] OTHER              -> [raised |-> "TypeError", value |-> 0]

\* Lines 307-319: the dict get_dashboard_data returns.
dashboard_dict(results, spectra_count, dataset_types, precursors, thumbnail_of_day_data) ==
    [thin_films_count      |-> results.thin_films_count,
     spectra_count         |-> spectra_count,
     total_datasets        |-> results.total_datasets,
     spin_runs_count       |-> results.spin_runs_count,
     sample_well_count     |-> results.sample_well_count,
     uvvis_datasets_count  |-> results.uvvis_datasets_count,
     sample_types          |-> results.sample_types,
     dataset_types         |-> dataset_type_records(dataset_types),
     samples_time          |-> results.samples_time,
     thin_films_precursors |-> precursors,
     thumbnail_of_day      |-> thumbnail_of_day_data]

\* The thumbnail entry rebuilt from the image alone when there is no image.
thumbnail_without_row(row, resolver) ==
    IF resolver.image_data = NoneText THEN [image_data |-> NoneText]
    ELSE row @@ [image_data |-> resolver.image_data]

\* Lines 295-305: the thumbnail entry of a row the query returned.
thumbnail_of_day_data(row, resolver) == row @@ [image_data |-> resolver.image_data]

\* One call of get_dashboard_data. `results` are the query results above;
\* `draw` is what the call meets outside the tables: the query at which the
\* warehouse raises (0: none), the form of a NULL cell, the row, dataset types
\* and precursor rows the warehouse picks among equals, CURRENT_DATE(), and
\* the answers of the two services of the resolver.
get_dashboard_data(results, draw) ==
    IF draw.fails_at \in 1..SpectraQuery THEN Raised("GoogleAPIError")
    ELSE LET spectra == spectra_count_of(results.spectra_result, draw.null_cell) IN
    IF spectra.raised # "none" THEN Raised(spectra.raised)
    ELSE IF draw.fails_at # 0 THEN Raised("GoogleAPIError")
    ELSE IF results.thumbnail_raises THEN Raised("BadRequest")
    ELSE IF results.thumbnail_rows = {}                  \* len(df_thumbnail_of_day) = 0
    THEN Returned(dashboard_dict(results, spectra.value, draw.dataset_types,
                                 draw.precursors, None),
                  0, NoImage(0))
    ELSE LET row      == thumbnail_row(draw.latest, draw.today)
             resolver == get_thumbnail_image_data(row.unique_id, draw.links, draw.fetch)
         IN  Returned(dashboard_dict(results, spectra.value, draw.dataset_types,
                                     draw.precursors,
                                     thumbnail_of_day_data(row, resolver)),
                      1, resolver)

\* datetime.now().isoformat()
Now == "2024-06-01T12:00:00"

\* api_data answering an exception with the error beside zeroed metrics.
api_response_partial(result) ==
    IF result.raised = "none"
    THEN [status |-> 200, body |-> result.data @@ [timestamp |-> Now], location |-> ""]
    ELSE [status |-> 500,
          body |-> [error |-> result.raised, thin_films_count |-> 0],
          location |-> ""]

\* Lines 336-344: the response of GET /api/data to the outcome of the call.
api_response(result) ==
    IF result.raised = "none"
    THEN [status |-> 200, body |-> result.data @@ [timestamp |-> Now], location |-> ""]
    ELSE [status |-> 500, body |-> [error |-> result.raised], location |-> ""]

NoRow == <<>>

NoLinks == [raises |-> TRUE, items |-> <<>>]

NoFetch == [raises |-> TRUE, status_code |-> 0, content_type |-> NoneText, content |-> <<>>]

\* Whether a call with these draws gets as far as the thumbnail query's rows.
ReachesThumbnail(results, fails_at, null_cell) ==
    /\ fails_at = 0
    /\ spectra_count_of(results.spectra_result, null_cell).raised = "none"
    /\ ~results.thumbnail_raises

\* Whether the resolver gets as far as requests.get with these links.
ReachesFetch(links) ==
    /\ ~links.raises
    /\ Len(JpegUrls(links.items)) > 0
    /\ JpegUrls(links.items)[1].v # ""

\* GET /api/data. Each draw is taken only where the call reads it.
api_data ==
    \E results \in {query_results} :
    \E fails_at \in {0} \cup Queries :
    \E null_cell \in (IF fails_at = 0 /\ results.spectra_result = <<>>
                      THEN NullCells ELSE {"None"}) :
    \E latest \in (IF ReachesThumbnail(results, fails_at, null_cell)
                      /\ results.thumbnail_rows # {}
                   THEN results.thumbnail_rows ELSE {NoRow}) :
    \E today \in (IF latest = NoRow THEN {0} ELSE Today) :
    \E links \in (IF latest = NoRow THEN {NoLinks} ELSE LinkAnswers) :
    \E fetch \in (IF ReachesFetch(links) THEN FetchAnswers ELSE {NoFetch}) :
    \E dataset_types \in (IF ReachesThumbnail(results, fails_at, null_cell)
                          THEN results.dataset_types ELSE {<<>>}) :
    \E precursors \in (IF ReachesThumbnail(results, fails_at, null_cell)
                       THEN results.thin_films_precursors ELSE {<<>>}) :
        LET result == get_dashboard_data(results,
                          [fails_at |-> fails_at, null_cell |-> null_cell,
                           latest |-> latest, today |-> today, links |-> links,
                           fetch |-> fetch, dataset_types |-> dataset_types,
                           precursors |-> precursors])
        IN  /\ response' = api_response(result)
            /\ log' = result.log
            /\ UNCHANGED <<tables, session, last_auth>>

(***************************************************************************)
(* The session routes                                                      *)
(***************************************************************************)

Browsers == {"browser1", "browser2"}

EmptySession == [k \in {} |-> ""]

\* What orcid.authorize_access_token() can do: raise, or return a token dict.
TokenAnswers ==
    { [raises |-> TRUE, token |-> EmptySession],
      [raises |-> FALSE, token |-> ("access_token" :> "t")],
      [raises |-> FALSE, token |-> ("orcid" :> "0000-0001") @@ ("name" :> "Ada")],
      [raises |-> FALSE, token |-> ("orcid" :> "0000-0001")],
      [raises |-> FALSE, token |-> ("orcid" :> "0000-0002") @@ ("name" :> "Ben")] }

\* dict.get(key, default)
Get(dict, key, default) == IF key \in DOMAIN dict THEN dict[key] ELSE default

\* dict[key] = value
Set(dict, key, value) == (key :> value) @@ dict

Redirect(location) == [status |-> 302, body |-> None, location |-> location]

\* Flask's answer to an exception no handler catches.
InternalServerError ==
    [status |-> 500, body |-> [page |-> "Internal Server Error"], location |-> ""]

SessionLog(route, browser, raised) ==
    [route |-> route, browser |-> browser, raised |-> raised, invoked |-> TRUE]

\* GET /login
login(b) ==
    /\ response' = Redirect("https://orcid.org/oauth/authorize")
    /\ log' = SessionLog("/login", b, "none")
    /\ UNCHANGED <<tables, session, last_auth>>

\* GET /authorize
authorize(b) ==
    \E answer \in TokenAnswers :
        IF answer.raises
        THEN /\ response' = InternalServerError
             /\ log' = SessionLog("/authorize", b, "OAuthError")
             /\ UNCHANGED <<tables, session, last_auth>>
        ELSE IF "orcid" \notin DOMAIN answer.token            \* token['orcid']
        THEN /\ response' = InternalServerError
             /\ log' = SessionLog("/authorize", b, "KeyError")
             /\ UNCHANGED <<tables, session, last_auth>>
        ELSE /\ session' =
                  [session EXCEPT ![b] =
                      Set(Set(@, "orcid", answer.token["orcid"]),
                          "name", Get(answer.token, "name", "User"))]
             /\ response' = Redirect("/")
             /\ log' = SessionLog("/authorize", b, "none")
             /\ last_auth' = [last_auth EXCEPT ![b] = "authorize"]
             /\ UNCHANGED tables

\* logout by session.pop('orcid', None) in place of session.clear().
logout_pop_orcid(b) ==
    /\ session' = [session EXCEPT ![b] = [k \in DOMAIN @ \ {"orcid"} |-> @[k]]]
    /\ response' = Redirect("/login")
    /\ log' = SessionLog("/logout", b, "none")
    /\ last_auth' = [last_auth EXCEPT ![b] = "logout"]
    /\ UNCHANGED tables

\* GET /logout
logout(b) ==
    /\ session' = [session EXCEPT ![b] = EmptySession]
    /\ response' = Redirect("/login")
    /\ log' = SessionLog("/logout", b, "none")
    /\ last_auth' = [last_auth EXCEPT ![b] = "logout"]
    /\ UNCHANGED tables

\* GET /
index(b) ==
    /\ response' = [status |-> 200,
                    body |-> [page |-> "dashboard.html",
                              user |-> Get(session[b], "name", "Guest")],
                    location |-> ""]
    /\ log' = SessionLog("/", b, "none")
    /\ UNCHANGED <<tables, session, last_auth>>

\* login_required with its check commented out, as it is in index.
login_not_required(b, view) == [response |-> view, invoked |-> TRUE]

\* The response of a view wrapped by login_required: `view` is what the
\* wrapped view would answer.
login_required(b, view) ==
    IF "orcid" \notin DOMAIN session[b]
    THEN [response |-> Redirect("/login"), invoked |-> FALSE]
    ELSE [response |-> view, invoked |-> TRUE]

\* A request to a view wrapped by login_required (the source wraps none).
decorated_function(b) ==
    LET answer == login_required(b, [status |-> 200, body |-> [page |-> "wrapped view"],
                                     location |-> ""])
    IN  /\ response' = answer.response
        /\ log' = [SessionLog("wrapped", b, "none") EXCEPT !.invoked = answer.invoked]
        /\ UNCHANGED <<tables, session, last_auth>>

(***************************************************************************)
(* Specifications                                                          *)
(***************************************************************************)

NoResponse == [status |-> 0, body |-> None, location |-> ""]

NoLog == SessionLog("", "", "none")

InitSession ==
    /\ session = [b \in Browsers |-> EmptySession]
    /\ last_auth = [b \in Browsers |-> "none"]
    /\ response = NoResponse
    /\ log = NoLog

\* The application over an empty warehouse.
Init ==
    /\ sample = {} /\ dataset = {} /\ datasetsamplelink = {} /\ samplelink = {}
    /\ InitSession

Next ==
    \/ \E b \in Browsers : login(b)
    \/ \E b \in Browsers : authorize(b)
    \/ \E b \in Browsers : logout(b)
    \/ \E b \in Browsers : index(b)
    \/ api_data

Spec == Init /\ [][Next]_vars

\* The application with a view behind login_required.
NextGate == Next \/ \E b \in Browsers : decorated_function(b)

SpecGate == Init /\ [][NextGate]_vars

\* GET /api/data over every warehouse of at most MaxRows catalogue rows.
InitWarehouse ==
    /\ \E v \in TableSizes(MaxRows) : \E w \in WarehousesOfSizes(v) :
         /\ sample = w[1]
         /\ dataset = w[2]
         /\ datasetsamplelink = w[3]
         /\ samplelink = w[4]
    /\ InitSession

SpecWarehouse == InitWarehouse /\ [][api_data]_vars

\* GET /api/data over warehouses whose datasets carry many measurement labels.
MaxLabels == 11

LabelLetters == <<"a", "b", "c", "d", "e", "f", "g", "h", "i", "j", "k", "l", "m">>

\* The datasets with the i-th label: two of them for the first six labels, so
\* that the labels differ in count.
LabelRows(i) ==
    {DatasetRow(20 + i, <<"x", "r", "d", "-", LabelLetters[i]>>, NULL, PROJECT_ID)}
    \cup (IF i <= 6
          THEN {DatasetRow(60 + i, <<"x", "r", "d", "-", LabelLetters[i]>>, NULL, PROJECT_ID)}
          ELSE {})

\* Further rows: one that repeats a label, one without a label, one of another project.
RepeatedRows ==
    { DatasetRow(41, <<"x", "r", "d", "-", "a">>, NULL, PROJECT_ID),
      DatasetRow(43, NULL, NULL, PROJECT_ID),
      DatasetRow(44, <<"x", "r", "d", "-", "m">>, NULL, "other_project") }

TypedSamples ==
    { s \in SampleCatalogue : s.id \in {1, 6, 7} }

InitLabels ==
    /\ \E k \in 0..MaxLabels : \E more \in SUBSET RepeatedRows :
         dataset = UNION {LabelRows(i) : i \in 1..k} \cup more
    /\ sample \in SUBSET TypedSamples
    /\ datasetsamplelink = {}
    /\ samplelink = {}
    /\ InitSession

SpecLabels == InitLabels /\ [][api_data]_vars

(***************************************************************************)
(* Properties of GET /api/data                                             *)
(***************************************************************************)

DataRequest == log.route = "/api/data"

MetricFields ==
    {"thin_films_count", "spectra_count", "total_datasets", "spin_runs_count",
     "sample_well_count", "uvvis_datasets_count", "sample_types", "dataset_types",
     "samples_time", "thin_films_precursors", "thumbnail_of_day"}

RowFields ==
    {"sample_id", "sample_name", "description", "date_created", "owner_orcid",
     "sample_type", "file_to_upload", "dataset_name", "source_folder", "dataset_id",
     "unique_id", "sample_date", "is_today"}

\* The exceptions that come from the warehouse refusing a query for a reason
\* outside the tables.
WarehouseFailure == log.raised = "GoogleAPIError"

\* C1: when the thumbnail-of-day query returns zero rows (every query before
\* it having succeeded), the response is 200, thumbnail_of_day is null, and
\* neither the download-link lookup nor the image fetch is attempted.
C1_NoRowsNoThumbnail ==
    (DataRequest /\ log.thumbnail_rows = 0) =>
        /\ response.status = 200
        /\ response.body.thumbnail_of_day = None
        /\ log.lookups = 0
        /\ log.fetches = 0

\* C1 happens: a warehouse that holds datasets, none giving a thumbnail row.
C1_Witness ==
    /\ DataRequest /\ log.thumbnail_rows = 0
    /\ dataset # {} /\ sample # {}
    /\ response.status = 200
    /\ response.body.thumbnail_of_day = None

\* C2: when the thumbnail-of-day query returns a row, the response is 200 and
\* carries every field of the row; image_data is null whenever the resolver
\* fails (the lookup raises, no key ends in .jpeg, the link is empty, the fetch
\* raises or answers a status other than 200), and is a data reference only
\* after a fetch that answered 200.
C2_ResolverFailureKeepsRow ==
    (DataRequest /\ log.thumbnail_rows = 1) =>
        /\ response.status = 200
        /\ response.body.thumbnail_of_day # None
        /\ DOMAIN response.body.thumbnail_of_day = RowFields \cup {"image_data"}
        /\ \E t \in thumbnail_latest : \E today \in Today :
             \A f \in RowFields :
                response.body.thumbnail_of_day[f] = thumbnail_row(t, today)[f]
        /\ log.lookups = 1
        /\ (log.fetches = 0 \/ log.fetch_status # 200)
              => response.body.thumbnail_of_day.image_data = NoneText
        /\ response.body.thumbnail_of_day.image_data # NoneText
              => /\ log.fetches = 1
                 /\ log.fetch_status = 200
                 /\ SubSeq(response.body.thumbnail_of_day.image_data, 1, 5)
                      = <<"d", "a", "t", "a", ":">>

\* C2 happens: a row was returned and the fetch of its image answered 404.
C2_Witness ==
    /\ DataRequest /\ log.thumbnail_rows = 1
    /\ log.fetches = 1 /\ log.fetch_status = 404
    /\ response.status = 200
    /\ response.body.thumbnail_of_day.image_data = NoneText
    /\ response.body.thumbnail_of_day.unique_id = 104

\* C3: a scalar aggregate that comes back NULL (the spectra sum when no
\* dataset qualifies) gives the field 0 and a 200 response, and a grouped
\* query without rows gives an empty collection.
C3_NullScalarIsZero ==
    (DataRequest /\ ~WarehouseFailure /\ log.raised # "BadRequest") =>
        /\ response.status = 200
        /\ query_spectra = <<>> => response.body.spectra_count = 0
        /\ sample = {} => response.body.sample_types = <<>>
        /\ dataset = {} => response.body.dataset_types = <<>>

\* C4: a sample whose date_created is in neither accepted format, or only in
\* the zone-less one, never makes the request fail: unless the warehouse
\* refuses a query for another reason, the response is 200.
C4_MalformedTimestampNeverCrashes ==
    (/\ DataRequest
     /\ \E s \in sample : s.date_created # NULL /\ ~Parses(FormatZoned, s.date_created)
     /\ ~WarehouseFailure
     /\ log.raised \notin {"ValueError", "TypeError"}) =>
        response.status = 200

\* C5: a request in which any step raises is answered 500 with a body that
\* holds the error message and nothing else; every 200 response holds the
\* eleven metric fields and timestamp.
C5_ErrorOrAllFields ==
    DataRequest =>
        /\ response.status \in {200, 500}
        /\ log.raised # "none" <=> response.status = 500
        /\ response.status = 500 =>
              /\ DOMAIN response.body = {"error"}
              /\ response.body.error = log.raised
        /\ response.status = 200 =>
              DOMAIN response.body = MetricFields \cup {"timestamp"}

\* C5 happens: the conversion of the spectra cell raised.
C5_Witness ==
    /\ DataRequest
    /\ log.raised = "ValueError"
    /\ response.status = 500
    /\ response.body = [error |-> "ValueError"]

\* C6: in every 200 response the cumulative_count column of samples_time is
\* non-decreasing in date order and ends at thin_films_count (0 for no rows).
C6_CumulativeEndsAtTotal ==
    (DataRequest /\ response.status = 200) =>
        LET rows == response.body.samples_time IN
        /\ \A i \in 1..(Len(rows) - 1) :
              /\ rows[i].date < rows[i + 1].date
              /\ rows[i].cumulative_count <= rows[i + 1].cumulative_count
        /\ (IF Len(rows) = 0 THEN 0 ELSE rows[Len(rows)].cumulative_count)
              = response.body.thin_films_count

\* 'needle' occurs in 'text' as written, character for character.
Contains(text, needle) ==
    \E i \in 1..(Len(text) - Len(needle) + 1) :
        SubSeq(text, i, i + Len(needle) - 1) = needle

PolluxOospec ==
    <<"p", "o", "l", "l", "u", "x", "_", "o", "o", "s", "p", "e", "c">>

\* C8: spectra_count is 8 times the number of distinct samples linked to each
\* dataset of the project whose label contains 'pollux_oospec' in any letter
\* case, summed over those datasets.
C8_SpectraOverSubstring ==
    (DataRequest /\ response.status = 200) =>
        LET ids == {d.id : d \in {x \in ProjectDatasets :
                                     x.measurement # NULL
                                     /\ Contains(LOWER(x.measurement), PolluxOospec)}}
        IN  response.body.spectra_count =
                SumOver(ids, [i \in ids |-> 8 * SampleCount(i)])

RECURSIVE SumOfCounts(_)
SumOfCounts(rows) ==
    IF rows = <<>> THEN 0 ELSE rows[1].count + SumOfCounts(Tail(rows))

MeasurementLabels == {d.measurement : d \in ProjectDatasets}

\* C7: in every 200 response the counts in sample_types sum to the number of
\* samples of the project; the counts in dataset_types sum to total_datasets
\* whenever the datasets of the project carry at most ten distinct measurement
\* labels (a missing label being one of them), and otherwise cover ten labels
\* and sum to no more than total_datasets.
C7_BreakdownsSumWithinLimit ==
    (DataRequest /\ response.status = 200) =>
        /\ SumOfCounts(response.body.sample_types) = Cardinality(ProjectSamples)
        /\ response.body.total_datasets = Cardinality(ProjectDatasets)
        /\ Cardinality(MeasurementLabels) <= 10 =>
              /\ SumOfCounts(response.body.dataset_types) = response.body.total_datasets
              /\ Len(response.body.dataset_types) = Cardinality(MeasurementLabels)
        /\ Cardinality(MeasurementLabels) > 10 =>
              /\ Len(response.body.dataset_types) = 10
              /\ SumOfCounts(response.body.dataset_types) <= response.body.total_datasets

\* C7 happens: more than ten labels, and the breakdown sums to less than the total.
C7_Witness ==
    /\ DataRequest /\ response.status = 200
    /\ Cardinality(MeasurementLabels) > 10
    /\ Len(response.body.dataset_types) = 10
    /\ SumOfCounts(response.body.dataset_types) < response.body.total_datasets
    /\ SumOfCounts(response.body.sample_types) = Cardinality(ProjectSamples)
    /\ sample # {}

\* C7 as stated: the counts in dataset_types sum to total_datasets for any
\* number of labels, and those in sample_types to the samples of the project.
C7_BreakdownsSumToTotals ==
    (DataRequest /\ response.status = 200) =>
        /\ SumOfCounts(response.body.dataset_types) = response.body.total_datasets
        /\ SumOfCounts(response.body.sample_types) = Cardinality(ProjectSamples)

(***************************************************************************)
(* Properties of the session routes                                        *)
(***************************************************************************)

\* C9: an /authorize that returns stores 'orcid' and 'name' ('User' when the
\* token has no name); /logout leaves the session without entries; an
\* /authorize that raises leaves every session as it was; so a session holds
\* 'orcid' exactly when the last of {returned authorize, logout} in that
\* browser was an authorize, and 'name' is never there without 'orcid'.
C9_SessionFollowsAuthorize ==
    /\ [](\A b \in Browsers :
            /\ "orcid" \in DOMAIN session[b] <=> last_auth[b] = "authorize"
            /\ "name" \in DOMAIN session[b] => "orcid" \in DOMAIN session[b]
            /\ DOMAIN session[b] \subseteq {"orcid", "name"})
    /\ []((log.route = "/authorize" /\ log.raised = "none") =>
            /\ {"orcid", "name"} \subseteq DOMAIN session[log.browser]
            /\ response = Redirect("/"))
    /\ [](log.route = "/logout" => session[log.browser] = EmptySession)
    /\ [][(log'.route = "/authorize" /\ log'.raised # "none") => session' = session]_vars
    /\ [][log'.route \in {"/login", "/", "/api/data"} => session' = session]_vars

\* C9 happens: one browser logged out, the other authorized with a token
\* without a name and then met an /authorize that raised.
C9_Witness ==
    \E b1, b2 \in Browsers :
        /\ last_auth[b1] = "logout" /\ session[b1] = EmptySession
        /\ session[b2] = ("orcid" :> "0000-0001") @@ ("name" :> "User")
        /\ log.route = "/authorize" /\ log.browser = b2 /\ log.raised = "KeyError"
        /\ response.status = 500

=============================================================================
